---- MODULE Spec2Model ----
(***************************************************************************)
(* A model of the Efile text-format engine of src/efile_parser.py:         *)
(*   - EFileParser._load_format_config  (properties-style configuration)   *)
(*   - EFileParser._find_sections       (section scanner)                  *)
(*   - EFileParser._parse_section       (table builder)                    *)
(*   - EFileParser.read_file            (orchestration)                    *)
(*                                                                         *)
(* Text is a sequence of characters, each character a one-character        *)
(* string.  The letters of a word that holds no character the code treats  *)
(* specially ("key", "AttributeNameStarter") are carried as one symbol.    *)
(* Python's None is the empty sequence where an optional record is meant.  *)
(***************************************************************************)
EXTENDS Integers, Sequences, FiniteSets, TLC

VARIABLES
    \* _find_sections
    lines,            \* content.split('\n')
    i,                \* the loop index of enumerate(lines), 0-based
    current_section,  \* None (<<>>) or <<[name, start]>>
    sections,         \* the list being built
    \* _load_format_config
    cfg_file,         \* the lines of the configuration file
    cfg_pos,          \* how many of them the for loop has consumed
    config,           \* the dict being built
    cfg_line,         \* the local `line` at the end of the last iteration
    \* _parse_section
    sec_lines,        \* the argument `lines`
    sec_end,          \* the argument `end` (`start` is 0)
    sec_pos,          \* how many lines of lines[start + 1:end] are consumed
    columns,          \* None (<<>>) or <<the column names>>
    data,             \* the rows collected so far
    df,               \* None (<<>>) or <<the DataFrame returned>>
    parse_exc,        \* None (<<>>) or <<the exception _parse_section raised>>
    \* the parser object and its caller
    pc,               \* "new", "ready" (constructed), "returned" (read_file)
    config_file,      \* what lies at the configuration path
    format_config,    \* self.format_config
    data_file,        \* what lies at file_path of the last read_file call
    result,           \* the value the last read_file call returned
    raised,           \* None or <<the exception that reached the caller>>
    printed,          \* None or <<the exception whose message was printed>>
    earlier_call,     \* None or <<an earlier read_file call of the parser>>
    \* the writers of xlsxToEfile.py
    frames,           \* the DataFrames passed to the writer
    writer            \* None or <<the name of the writer that ran>>

scanVars == <<lines, i, current_section, sections>>

cfgVars == <<cfg_file, cfg_pos, config, cfg_line>>

parseVars == <<sec_lines, sec_end, sec_pos, columns, data, df, parse_exc>>

callerVars == <<pc, config_file, data_file, result, raised, printed,
                earlier_call, frames, writer>>

vars == <<lines, i, current_section, sections,
          cfg_file, cfg_pos, config, cfg_line,
          sec_lines, sec_end, sec_pos, columns, data, df, parse_exc,
          pc, config_file, format_config, data_file, result, raised, printed,
          earlier_call, frames, writer>>

-----------------------------------------------------------------------------
(* Bounds of the model *)

MaxLines == 4        \* lines of a scanned file
MaxConfigLen == 5    \* characters of a configuration line
MaxBody == 3         \* lines between the markers of a parsed section
MaxBlocks == 2       \* blocks of lines a data file is made of

-----------------------------------------------------------------------------
(* Python string primitives, on sequences of characters *)

Whitespace == {" ", "\t", "\n", "\r"}

RECURSIVE LStrip(_)
LStrip(s) == IF s # <<>> /\ Head(s) \in Whitespace THEN LStrip(Tail(s)) ELSE s

RECURSIVE RStrip(_)
RStrip(s) ==
    IF s # <<>> /\ s[Len(s)] \in Whitespace
    THEN RStrip(SubSeq(s, 1, Len(s) - 1))
    ELSE s

\* str.strip()
Strip(s) == RStrip(LStrip(s))

\* str.startswith(p)
StartsWith(s, p) == Len(p) <= Len(s) /\ SubSeq(s, 1, Len(p)) = p

\* s[a:] for a >= 0
SliceFrom(s, a) == SubSeq(s, a + 1, Len(s))

\* s[a:-1] for a >= 0
SliceDropLast(s, a) == SubSeq(s, a + 1, Len(s) - 1)

-----------------------------------------------------------------------------
(* EFileParser._find_sections *)

None == <<>>

Lt == <<"<">>
LtSlash == <<"<", "/">>

\* line.startswith('<') and not line.startswith('</')
IsOpenMarker(line) == StartsWith(line, Lt) /\ ~StartsWith(line, LtSlash)

\* line.startswith('</')
IsCloseMarker(line) == StartsWith(line, LtSlash)

\* line[1:-1]
OpenName(line) == SliceDropLast(line, 1)

\* line[2:-1]
CloseName(line) == SliceDropLast(line, 2)

\* A mismatching close marker forgets the open section.
ScanStepCloseResets(st, idx, raw) ==
    LET line == Strip(raw) IN
    IF line = <<>> THEN st
    ELSE IF IsOpenMarker(line)
    THEN [st EXCEPT !.current_section =
              <<[name |-> OpenName(line), start |-> idx]>>]
    ELSE IF IsCloseMarker(line) /\ st.current_section # None
    THEN IF CloseName(line) = st.current_section[1].name
         THEN [current_section |-> None,
               sections |-> Append(st.sections,
                   [name |-> st.current_section[1].name,
                    start |-> st.current_section[1].start,
                    end |-> idx])]
         ELSE [st EXCEPT !.current_section = None]
    ELSE st

\* An open marker seen while a section is open is ignored (first open kept).
ScanStepKeepsFirstOpen(st, idx, raw) ==
    LET line == Strip(raw) IN
    IF line = <<>> THEN st
    ELSE IF IsOpenMarker(line)
    THEN IF st.current_section = None
         THEN [st EXCEPT !.current_section =
                   <<[name |-> OpenName(line), start |-> idx]>>]
         ELSE st
    ELSE IF IsCloseMarker(line) /\ st.current_section # None
    THEN IF CloseName(line) = st.current_section[1].name
         THEN [current_section |-> None,
               sections |-> Append(st.sections,
                   [name |-> st.current_section[1].name,
                    start |-> st.current_section[1].start,
                    end |-> idx])]
         ELSE st
    ELSE st

\* A section whose name was already emitted is dropped.
ScanStepDropsDuplicate(st, idx, raw) ==
    LET line == Strip(raw) IN
    IF line = <<>> THEN st
    ELSE IF IsOpenMarker(line)
    THEN [st EXCEPT !.current_section =
              <<[name |-> OpenName(line), start |-> idx]>>]
    ELSE IF IsCloseMarker(line) /\ st.current_section # None
    THEN IF CloseName(line) = st.current_section[1].name
         THEN [current_section |-> None,
               sections |->
                   IF \E k \in 1..Len(st.sections) :
                          st.sections[k].name = st.current_section[1].name
                   THEN st.sections
                   ELSE Append(st.sections,
                       [name |-> st.current_section[1].name,
                        start |-> st.current_section[1].start,
                        end |-> idx])]
         ELSE st
    ELSE st

\* the iteration with current_section kept after its close marker
ScanStepStaysOpen(st, idx, raw) ==
    LET line == Strip(raw) IN
    IF line = <<>> THEN st
    ELSE IF IsOpenMarker(line)
    THEN [st EXCEPT !.current_section =
              <<[name |-> OpenName(line), start |-> idx]>>]
    ELSE IF IsCloseMarker(line) /\ st.current_section # None
    THEN IF CloseName(line) = st.current_section[1].name
         THEN [st EXCEPT !.sections = Append(st.sections,
                   [name |-> st.current_section[1].name,
                    start |-> st.current_section[1].start,
                    end |-> idx])]
         ELSE st
    ELSE st

\* One iteration of the for loop (lines 117-133): st is the pair
\* (current_section, sections), idx the 0-based index, raw the line.
ScanStep(st, idx, raw) ==
    LET line == Strip(raw) IN
    IF line = <<>> THEN st
    ELSE IF IsOpenMarker(line)
    THEN [st EXCEPT !.current_section =
              <<[name |-> OpenName(line), start |-> idx]>>]
    ELSE IF IsCloseMarker(line) /\ st.current_section # None
    THEN IF CloseName(line) = st.current_section[1].name
         THEN [current_section |-> None,
               sections |-> Append(st.sections,
                   [name |-> st.current_section[1].name,
                    start |-> st.current_section[1].start,
                    end |-> idx])]
         ELSE st
    ELSE st

ScanStart == [current_section |-> None, sections |-> <<>>]

RECURSIVE ScanFrom(_, _, _)
ScanFrom(st, idx, ls) ==
    IF idx >= Len(ls) THEN st
    ELSE ScanFrom(ScanStep(st, idx, ls[idx + 1]), idx + 1, ls)

\* _find_sections(content), content already split into lines
FindSections(ls) == ScanFrom(ScanStart, 0, ls).sections

-----------------------------------------------------------------------------
(* EFileParser._load_format_config *)

Backslash == "\\"
Hash == "#"
Equals == "="

\* the dict {} and d[k] = v
EmptyDict == [k \in {} |-> <<>>]

Put(d, k, v) == [x \in (DOMAIN d) \cup {k} |-> IF x = k THEN v ELSE d[x]]

\* The first '#' of the line, escaped or not.
RECURSIVE FindCommentPosNoEscape(_, _)
FindCommentPosNoEscape(line, idx) ==
    IF idx >= Len(line) THEN -1
    ELSE IF line[idx + 1] = Hash THEN idx
    ELSE FindCommentPosNoEscape(line, idx + 1)

\* lines 50-59: the 0-based position of the first unescaped '#', or -1
RECURSIVE FindCommentPos(_, _)
FindCommentPos(line, idx) ==
    IF idx >= Len(line) THEN -1
    ELSE IF line[idx + 1] = Backslash /\ idx + 1 < Len(line)
    THEN FindCommentPos(line, idx + 2)
    ELSE IF line[idx + 1] = Hash THEN idx
    ELSE FindCommentPos(line, idx + 1)

\* lines 62-63: line[:comment_pos].strip() when a comment was found
StripComment(line) ==
    LET comment_pos == FindCommentPos(line, 0) IN
    IF comment_pos # -1 THEN Strip(SubSeq(line, 1, comment_pos)) ELSE line

\* c in s
Contains(s, c) == \E k \in 1..Len(s) : s[k] = c

\* s.index(c), 1-based, for c in s
FirstIndex(s, c) == CHOOSE k \in 1..Len(s) :
                        s[k] = c /\ \A m \in 1..(k - 1) : s[m] # c

\* line.split('=', 1), both parts stripped (lines 67-69)
KeyOf(line) == Strip(SubSeq(line, 1, FirstIndex(line, Equals) - 1))

ValueOf(line) == Strip(SubSeq(line, FirstIndex(line, Equals) + 1, Len(line)))

\* lines 81-90: what the pair backslash + next_char appends
Unescape(next_char) ==
    IF next_char = "#" THEN "#"
    ELSE IF next_char = "n" THEN "\n"
    ELSE IF next_char = "t" THEN "\t"
    ELSE IF next_char = Backslash THEN Backslash
    ELSE next_char

\* The escape pass without the \t case.
RECURSIVE DecodeFromNoTab(_, _)
DecodeFromNoTab(value, idx) ==
    IF idx >= Len(value) THEN <<>>
    ELSE IF value[idx + 1] = Backslash /\ idx + 1 < Len(value)
    THEN <<IF value[idx + 2] = "t" THEN "t" ELSE Unescape(value[idx + 2])>>
             \o DecodeFromNoTab(value, idx + 2)
    ELSE <<value[idx + 1]>> \o DecodeFromNoTab(value, idx + 1)

\* lines 76-95: the escape pass over the value, from 0-based position idx
RECURSIVE DecodeFrom(_, _)
DecodeFrom(value, idx) ==
    IF idx >= Len(value) THEN <<>>
    ELSE IF value[idx + 1] = Backslash /\ idx + 1 < Len(value)
    THEN <<Unescape(value[idx + 2])>> \o DecodeFrom(value, idx + 2)
    ELSE <<value[idx + 1]>> \o DecodeFrom(value, idx + 1)

\* lines 72-95
DecodeValue(value) ==
    IF value = <<Backslash>> THEN <<" ">>
    ELSE IF Contains(value, Backslash) THEN DecodeFrom(value, 0)
    ELSE value

\* lines 38-47: the line is skipped before any parsing
IsSkippedLine(raw) == Strip(raw) = <<>> \/ StartsWith(Strip(raw), <<Hash>>)

\* One iteration of `for line in f` (lines 36-97): the dict afterwards.
LoadLine(d, raw) ==
    IF IsSkippedLine(raw) THEN d
    ELSE LET line == StripComment(Strip(raw)) IN
         IF Contains(line, Equals)
         THEN Put(d, KeyOf(line), DecodeValue(ValueOf(line)))
         ELSE d

\* the local `line` when the iteration ends
LineAfter(raw) ==
    IF IsSkippedLine(raw) THEN Strip(raw) ELSE StripComment(Strip(raw))

RECURSIVE LoadFrom(_, _, _)
LoadFrom(d, file, pos) ==
    IF pos >= Len(file) THEN d
    ELSE LoadFrom(LoadLine(d, file[pos + 1]), file, pos + 1)

\* _load_format_config on a file that opens and decodes
LoadFormatConfig(file) == LoadFrom(EmptyDict, file, 0)

-----------------------------------------------------------------------------
(* EFileParser._parse_section *)

AttributeNameStarter == <<"AttributeNameStarter">>
AttributeBreaker == <<"AttributeBreaker">>
DataLineStarter == <<"DataLineStarter">>
DataBreaker == <<"DataBreaker">>

\* exceptions, as optional records
KeyError(k) == <<[type |-> "KeyError", arg |-> k]>>
ValueError(what) == <<[type |-> "ValueError", arg |-> <<what>>]>>
IOError == <<[type |-> "IOError", arg |-> <<"open">>]>>

\* 1-based position of the first occurrence of sep in s, 0 when there is none
FirstOccurrence(s, sep) ==
    LET hits == { k \in 1..(Len(s) - Len(sep) + 1) :
                    SubSeq(s, k, k + Len(sep) - 1) = sep }
    IN  IF hits = {} THEN 0
        ELSE CHOOSE k \in hits : \A m \in hits : k <= m

\* str.split(sep) for a non-empty sep
RECURSIVE Split(_, _)
Split(s, sep) ==
    LET k == FirstOccurrence(s, sep) IN
    IF k = 0 THEN <<s>>
    ELSE <<SubSeq(s, 1, k - 1)>> \o Split(SubSeq(s, k + Len(sep), Len(s)), sep)

\* [x.strip() for x in line.split(sep)]
SplitStripped(s, sep) ==
    LET parts == Split(s, sep) IN [k \in 1..Len(parts) |-> Strip(parts[k])]

Comment == <<"/", "/">>

ParseStart == [columns |-> None, data |-> <<>>, exc |-> None]

\* the iteration with a space standing in for an absent DataBreaker
ParseStepDefaultBreaker(cfg, st, raw) ==
    LET line == Strip(raw) IN
    IF st.exc # None THEN st
    ELSE IF line = <<>> \/ StartsWith(line, Comment) THEN st
    ELSE IF AttributeNameStarter \notin DOMAIN cfg
    THEN [st EXCEPT !.exc = KeyError(AttributeNameStarter)]
    ELSE IF StartsWith(line, cfg[AttributeNameStarter])
    THEN IF AttributeBreaker \notin DOMAIN cfg
         THEN [st EXCEPT !.exc = KeyError(AttributeBreaker)]
         ELSE IF cfg[AttributeBreaker] = <<>>
         THEN [st EXCEPT !.exc = ValueError("empty separator")]
         ELSE [st EXCEPT !.columns =
                   <<SplitStripped(Strip(SliceFrom(line, 1)),
                                   cfg[AttributeBreaker])>>]
    ELSE IF DataLineStarter \notin DOMAIN cfg
    THEN [st EXCEPT !.exc = KeyError(DataLineStarter)]
    ELSE IF StartsWith(line, cfg[DataLineStarter])
    THEN IF DataBreaker \in DOMAIN cfg /\ cfg[DataBreaker] = <<>>
         THEN [st EXCEPT !.exc = ValueError("empty separator")]
         ELSE [st EXCEPT !.data =
                   Append(st.data,
                          SplitStripped(Strip(SliceFrom(line, 1)),
                                        IF DataBreaker \in DOMAIN cfg
                                        THEN cfg[DataBreaker] ELSE <<" ">>))]
    ELSE st

\* One iteration of the for loop (lines 152-165) under configuration cfg;
\* st holds columns, data and the exception that ended the loop, if any.
ParseStep(cfg, st, raw) ==
    LET line == Strip(raw) IN
    IF st.exc # None THEN st
    ELSE IF line = <<>> \/ StartsWith(line, Comment) THEN st
    ELSE IF AttributeNameStarter \notin DOMAIN cfg
    THEN [st EXCEPT !.exc = KeyError(AttributeNameStarter)]
    ELSE IF StartsWith(line, cfg[AttributeNameStarter])
    THEN IF AttributeBreaker \notin DOMAIN cfg
         THEN [st EXCEPT !.exc = KeyError(AttributeBreaker)]
         ELSE IF cfg[AttributeBreaker] = <<>>
         THEN [st EXCEPT !.exc = ValueError("empty separator")]
         ELSE [st EXCEPT !.columns =
                   <<SplitStripped(Strip(SliceFrom(line, 1)),
                                   cfg[AttributeBreaker])>>]
    ELSE IF DataLineStarter \notin DOMAIN cfg
    THEN [st EXCEPT !.exc = KeyError(DataLineStarter)]
    ELSE IF StartsWith(line, cfg[DataLineStarter])
    THEN IF DataBreaker \notin DOMAIN cfg
         THEN [st EXCEPT !.exc = KeyError(DataBreaker)]
         ELSE IF cfg[DataBreaker] = <<>>
         THEN [st EXCEPT !.exc = ValueError("empty separator")]
         ELSE [st EXCEPT !.data =
                   Append(st.data,
                          SplitStripped(Strip(SliceFrom(line, 1)),
                                        cfg[DataBreaker]))]
    ELSE st

RECURSIVE ParseFrom(_, _, _, _)
ParseFrom(cfg, st, body, pos) ==
    IF pos >= Len(body) THEN st
    ELSE ParseFrom(cfg, ParseStep(cfg, st, body[pos + 1]), body, pos + 1)

\* lines[start + 1:end]
SectionBody(ls, start, end) == SubSeq(ls, start + 2, end)

\* pandas: the text pd.to_numeric converts.  The empty string converts (to
\* NaN); otherwise an optional sign, digits and at most one decimal point.
Digits == {"0", "1", "2", "3", "4", "5", "6", "7", "8", "9"}

IsNumericText(s) ==
    \/ s = <<>>
    \/ LET u == IF s[1] \in {"+", "-"} THEN Tail(s) ELSE s IN
       /\ \A k \in 1..Len(u) : u[k] \in Digits \cup {"."}
       /\ \E k \in 1..Len(u) : u[k] \in Digits
       /\ Cardinality({ k \in 1..Len(u) : u[k] = "." }) <= 1

\* the None pandas pads a short row with
NaCell == <<"None">>

MaxWidth(rows) ==
    CHOOSE w \in { Len(rows[r]) : r \in 1..Len(rows) } :
        \A r \in 1..Len(rows) : Len(rows[r]) <= w

PadRow(row, w) == [j \in 1..w |-> IF j <= Len(row) THEN row[j] ELSE NaCell]

\* lines 170-174 for the column at position j: df[col] = pd.to_numeric(df[col])
\* succeeds when df[col] is one column (a label held by several columns
\* selects a DataFrame, and to_numeric raises TypeError) and every cell of it
\* converts; any exception leaves the column as it was.
ToNumericSucceeds(cols, rows, j) ==
    /\ \A k \in 1..Len(cols) : (k # j) => cols[k] # cols[j]
    /\ \A r \in 1..Len(rows) :
        rows[r][j] = NaCell \/ IsNumericText(rows[r][j])

\* pd.DataFrame(): no columns, no rows
EmptyDataFrame == [columns |-> <<>>, rows |-> <<>>, numeric |-> <<>>]

\* df.empty is never true.
IsEmptyFrameNever(frame) == FALSE

\* df.empty
IsEmptyFrame(frame) == frame.columns = <<>> \/ frame.rows = <<>>

\* line 168 and lines 170-174: pd.DataFrame(data, columns=columns) pads the
\* short rows with None up to the longest row, then the numeric conversion.
\* numeric[j] tells whether column j was converted.
TypedFrame(cols, rows) ==
    LET padded == [r \in 1..Len(rows) |-> PadRow(rows[r], Len(cols))] IN
    [columns |-> cols,
     rows |-> padded,
     numeric |-> [j \in 1..Len(cols) |-> ToNumericSucceeds(cols, padded, j)]]

\* if columns and data
HasColumnsAndData(st) ==
    st.columns # None /\ st.columns[1] # <<>> /\ st.data # <<>>

\* lines 167-176 after the loop ended in st without an exception: the
\* DataFrame returned, or the ValueError pandas raises when the longest row
\* and the header differ in length.
Finish(st) ==
    IF HasColumnsAndData(st)
    THEN IF MaxWidth(st.data) # Len(st.columns[1])
         THEN [exc |-> ValueError("columns passed"), df |-> None]
         ELSE [exc |-> None, df |-> <<TypedFrame(st.columns[1], st.data)>>]
    ELSE [exc |-> None, df |-> <<EmptyDataFrame>>]

\* _parse_section(lines, start, end) under self.format_config = cfg
ParseSection(cfg, ls, start, end) ==
    LET st == ParseFrom(cfg, ParseStart, SectionBody(ls, start, end), 0) IN
    IF st.exc # None THEN [exc |-> st.exc, df |-> None] ELSE Finish(st)

-----------------------------------------------------------------------------
(* EFileParser.read_file *)

\* what lies at a path: a text file, as its lines, or nothing readable
Readable(ls) == [readable |-> TRUE, lines |-> ls]
Unreadable == [readable |-> FALSE, lines |-> <<>>]

\* the loop with an insertion that never overwrites an entry
RECURSIVE ReadSectionsKeepFirst(_, _, _, _, _)
ReadSectionsKeepFirst(cfg, ls, secs, k, res) ==
    IF k > Len(secs) THEN [result |-> res, printed |-> None]
    ELSE LET parsed == ParseSection(cfg, ls, secs[k].start, secs[k].end) IN
         IF parsed.exc # None
         THEN [result |-> EmptyDict, printed |-> parsed.exc]
         ELSE IF ~IsEmptyFrame(parsed.df[1]) /\ secs[k].name \notin DOMAIN res
         THEN ReadSectionsKeepFirst(cfg, ls, secs, k + 1,
                                    Put(res, secs[k].name, parsed.df[1]))
         ELSE ReadSectionsKeepFirst(cfg, ls, secs, k + 1, res)

\* lines 204-211: the loop over the sections from the k-th on; an exception
\* of _parse_section ends the call in the except clause (lines 215-217).
RECURSIVE ReadSections(_, _, _, _, _)
ReadSections(cfg, ls, secs, k, res) ==
    IF k > Len(secs) THEN [result |-> res, printed |-> None]
    ELSE LET parsed == ParseSection(cfg, ls, secs[k].start, secs[k].end) IN
         IF parsed.exc # None
         THEN [result |-> EmptyDict, printed |-> parsed.exc]
         ELSE IF ~IsEmptyFrame(parsed.df[1])
         THEN ReadSections(cfg, ls, secs, k + 1,
                           Put(res, secs[k].name, parsed.df[1]))
         ELSE ReadSections(cfg, ls, secs, k + 1, res)

\* read_file(file_path) under self.format_config = cfg: the mapping returned
\* and the exception whose message was printed, if any.
ReadFile(cfg, file) ==
    IF ~file.readable THEN [result |-> EmptyDict, printed |-> IOError]
    ELSE ReadSections(cfg, file.lines, FindSections(file.lines), 1, EmptyDict)

-----------------------------------------------------------------------------
(* The scanner as a state machine: one action per kind of line *)

ScanLinePool ==
    { <<"<", "A", ">">>,
      <<"<", "/", "A", ">">>,
      <<"<", "B", ">">>,
      <<"<", "/", "B", ">">>,
      <<"x">>,
      <<" ">>,
      <<" ", "<", "A", ">", " ">>,
      <<"<", "/", "C", ">">>,
      <<"<", "A", "B">> }

RECURSIVE SeqsUpTo(_, _)
SeqsUpTo(S, n) ==
    IF n = 0 THEN {<<>>}
    ELSE LET shorter == SeqsUpTo(S, n - 1)
         IN  shorter \cup {Append(s, x) : s \in shorter, x \in S}

ScanIdle ==
    /\ lines = <<>>
    /\ i = 0
    /\ current_section = None
    /\ sections = <<>>

CfgIdle ==
    /\ cfg_file = <<>>
    /\ cfg_pos = 0
    /\ config = EmptyDict
    /\ cfg_line = <<>>

ParseIdle ==
    /\ sec_lines = <<>>
    /\ sec_end = 0
    /\ sec_pos = 0
    /\ columns = None
    /\ data = <<>>
    /\ df = None
    /\ parse_exc = None

CallerIdle ==
    /\ pc = "new"
    /\ config_file = Unreadable
    /\ data_file = Unreadable
    /\ result = EmptyDict
    /\ raised = None
    /\ printed = None
    /\ earlier_call = None
    /\ frames = <<>>
    /\ writer = None

ScanInit ==
    /\ lines \in SeqsUpTo(ScanLinePool, MaxLines)
    /\ i = 0
    /\ current_section = None
    /\ sections = <<>>
    /\ CfgIdle
    /\ ParseIdle
    /\ CallerIdle
    /\ format_config = EmptyDict

ScanState == [current_section |-> current_section, sections |-> sections]

CurLine == Strip(lines[i + 1])

ScanAdvance ==
    LET st == ScanStep(ScanState, i, lines[i + 1]) IN
    /\ current_section' = st.current_section
    /\ sections' = st.sections
    /\ i' = i + 1
    /\ UNCHANGED <<lines, cfgVars, parseVars, callerVars, format_config>>

ScanBlank == i < Len(lines) /\ CurLine = <<>> /\ ScanAdvance

ScanOpen == i < Len(lines) /\ IsOpenMarker(CurLine) /\ ScanAdvance

ScanCloseMatching ==
    /\ i < Len(lines)
    /\ IsCloseMarker(CurLine)
    /\ current_section # None
    /\ CloseName(CurLine) = current_section[1].name
    /\ ScanAdvance

ScanCloseIgnored ==
    /\ i < Len(lines)
    /\ IsCloseMarker(CurLine)
    /\ \/ current_section = None
       \/ /\ current_section # None
          /\ CloseName(CurLine) # current_section[1].name
    /\ ScanAdvance

ScanOther ==
    /\ i < Len(lines)
    /\ CurLine # <<>>
    /\ ~StartsWith(CurLine, Lt)
    /\ ScanAdvance

ScanNext ==
    \/ ScanBlank
    \/ ScanOpen
    \/ ScanCloseMatching
    \/ ScanCloseIgnored
    \/ ScanOther

SpecScan == ScanInit /\ [][ScanNext]_vars

ScanDone == i = Len(lines)

-----------------------------------------------------------------------------
(* The configuration loader as a state machine: one action per kind of line *)

FormatKeys ==
    {AttributeNameStarter, AttributeBreaker, DataLineStarter, DataBreaker}

NameStarterLine == AttributeNameStarter \o <<" ", "=", " ", "@">>
NameBreakerLine == AttributeBreaker \o <<" ", "=", " ", "\\">>
DataStarterLine == DataLineStarter \o <<" ", "=", " ", "\\", "#">>
DataBreakerLine ==
    DataBreaker \o <<" ", "=", " ", "\\", " ", " ", "#", " ", "space">>
CommentLine == <<"#", " ", "Efile", " ", "format">>

\* key = value \# not a comment # actual comment
ExampleCommentLine ==
    <<"key", " ", "=", " ", "value", " ", "\\", "#", " ", "not", " ", "a",
      " ", "comment", " ", "#", " ", "actual", " ", "comment">>

\* the conventional Eformat.properties, and files that lack keys
ConventionalFile ==
    <<CommentLine, NameStarterLine, NameBreakerLine, <<>>,
      DataStarterLine, DataBreakerLine>>

NoDataBreakerFile == <<NameStarterLine, NameBreakerLine, DataStarterLine>>

NoNameStarterFile == <<NameBreakerLine, DataStarterLine, DataBreakerLine>>

\* a file that loads and holds no key
NoKeyFile == <<CommentLine>>

\* AttributeBreaker = (nothing): the token is the empty string
EmptyBreakerFile ==
    <<NameStarterLine, AttributeBreaker \o <<" ", "=">>, DataStarterLine,
      DataBreakerLine>>

\* four tokens, with '#' starting the header lines and '@' the data lines
SwappedStartersFile ==
    <<AttributeNameStarter \o <<"=", "\\", "#">>, NameBreakerLine,
      DataLineStarter \o <<"=", "@">>, DataBreakerLine>>

\* four tokens, the starters two characters long: '@@' and '##'
LongStartersFile ==
    <<AttributeNameStarter \o <<" ", "=", " ", "@", "@">>, NameBreakerLine,
      DataLineStarter \o <<" ", "=", " ", "\\", "#", "\\", "#">>,
      DataBreakerLine>>

NoNameBreakerFile == <<NameStarterLine, DataStarterLine, DataBreakerLine>>

NoDataStarterFile == <<NameStarterLine, NameBreakerLine, DataBreakerLine>>

ConfigFiles ==
    { ConventionalFile, NoDataBreakerFile, NoNameStarterFile, NoKeyFile,
      EmptyBreakerFile, SwappedStartersFile, LongStartersFile,
      NoNameBreakerFile, NoDataStarterFile }

ConfigAlphabet == {"k", "=", "\\", "#", " ", "n", "t"}

ConfigInit ==
    /\ cfg_file \in { <<l>> : l \in SeqsUpTo(ConfigAlphabet, MaxConfigLen) }
                       \cup ConfigFiles \cup { <<ExampleCommentLine>> }
    /\ cfg_pos = 0
    /\ config = EmptyDict
    /\ cfg_line = <<>>
    /\ ScanIdle
    /\ ParseIdle
    /\ CallerIdle
    /\ format_config = EmptyDict

CfgRaw == cfg_file[cfg_pos + 1]

LoadAdvance ==
    /\ config' = LoadLine(config, CfgRaw)
    /\ cfg_line' = LineAfter(CfgRaw)
    /\ cfg_pos' = cfg_pos + 1
    /\ UNCHANGED <<cfg_file, scanVars, parseVars, callerVars, format_config>>

LoadSkip == cfg_pos < Len(cfg_file) /\ IsSkippedLine(CfgRaw) /\ LoadAdvance

LoadEntry ==
    /\ cfg_pos < Len(cfg_file)
    /\ ~IsSkippedLine(CfgRaw)
    /\ Contains(StripComment(Strip(CfgRaw)), Equals)
    /\ LoadAdvance

LoadNoEntry ==
    /\ cfg_pos < Len(cfg_file)
    /\ ~IsSkippedLine(CfgRaw)
    /\ ~Contains(StripComment(Strip(CfgRaw)), Equals)
    /\ LoadAdvance

ConfigNext == LoadSkip \/ LoadEntry \/ LoadNoEntry

SpecConfig == ConfigInit /\ [][ConfigNext]_vars

-----------------------------------------------------------------------------
(* _parse_section as a state machine: one action per kind of line *)

OpenA == <<"<", "A", ">">>
CloseA == <<"<", "/", "A", ">">>
OpenB == <<"<", "B", ">">>
CloseB == <<"<", "/", "B", ">">>

HeaderAB == <<"@", " ", "a", " ", "b">>
HeaderAA == <<"@", " ", "a", " ", "a">>
HeaderA == <<"@", " ", "a">>
Row12 == <<"#", " ", "1", " ", "2">>
Row3x == <<"#", " ", "3", " ", "x">>
Row1 == <<"#", " ", "1">>
RowX == <<"#", " ", "x">>
Row123 == <<"#", " ", "1", " ", "2", " ", "3">>
CommentRow == <<"/", "/", " ", "c">>
OtherRow == <<"j", "u", "n", "k">>
LongHeaderAB == <<"@", "@", " ", "a", " ", "b">>
LongRow12 == <<"#", "#", " ", "1", " ", "2">>

BodyPool ==
    { HeaderAB, HeaderAA, Row12, Row3x, Row1, Row123, CommentRow, OtherRow,
      LongHeaderAB, LongRow12 }

\* the configurations _load_format_config returns for the files above
LoadedConfigs == { LoadFormatConfig(f) : f \in ConfigFiles }

ParseInit ==
    /\ format_config \in LoadedConfigs
    /\ \E body \in SeqsUpTo(BodyPool, MaxBody) :
           /\ sec_lines = <<OpenA>> \o body \o <<CloseA>>
           /\ sec_end = Len(body) + 1
    /\ sec_pos = 0
    /\ columns = None
    /\ data = <<>>
    /\ df = None
    /\ parse_exc = None
    /\ ScanIdle
    /\ CfgIdle
    /\ CallerIdle

SecBody == SectionBody(sec_lines, 0, sec_end)

SecLine == Strip(SecBody[sec_pos + 1])

InLoop == sec_pos < Len(SecBody) /\ parse_exc = None /\ df = None

IsSkippedRow(line) == line = <<>> \/ StartsWith(line, Comment)

IsHeaderRow(cfg, line) ==
    /\ AttributeNameStarter \in DOMAIN cfg
    /\ StartsWith(line, cfg[AttributeNameStarter])

IsDataRow(cfg, line) ==
    /\ AttributeNameStarter \in DOMAIN cfg
    /\ ~StartsWith(line, cfg[AttributeNameStarter])
    /\ DataLineStarter \in DOMAIN cfg
    /\ StartsWith(line, cfg[DataLineStarter])

ParseAdvance ==
    LET st == ParseStep(format_config,
                        [columns |-> columns, data |-> data, exc |-> None],
                        SecBody[sec_pos + 1]) IN
    /\ columns' = st.columns
    /\ data' = st.data
    /\ parse_exc' = st.exc
    /\ sec_pos' = sec_pos + 1
    /\ UNCHANGED <<sec_lines, sec_end, df, format_config,
                   scanVars, cfgVars, callerVars>>

ParseSkip == InLoop /\ IsSkippedRow(SecLine) /\ ParseAdvance

ParseHeader ==
    /\ InLoop
    /\ ~IsSkippedRow(SecLine)
    /\ IsHeaderRow(format_config, SecLine)
    /\ ParseAdvance

ParseData ==
    /\ InLoop
    /\ ~IsSkippedRow(SecLine)
    /\ IsDataRow(format_config, SecLine)
    /\ ParseAdvance

ParseOther ==
    /\ InLoop
    /\ ~IsSkippedRow(SecLine)
    /\ {AttributeNameStarter, DataLineStarter} \subseteq DOMAIN format_config
    /\ ~IsHeaderRow(format_config, SecLine)
    /\ ~IsDataRow(format_config, SecLine)
    /\ ParseAdvance

ParseMissingStarter ==
    /\ InLoop
    /\ ~IsSkippedRow(SecLine)
    /\ \/ AttributeNameStarter \notin DOMAIN format_config
       \/ /\ AttributeNameStarter \in DOMAIN format_config
          /\ ~StartsWith(SecLine, format_config[AttributeNameStarter])
          /\ DataLineStarter \notin DOMAIN format_config
    /\ ParseAdvance

ParseReturn ==
    /\ sec_pos = Len(SecBody)
    /\ parse_exc = None
    /\ df = None
    /\ LET r == Finish([columns |-> columns, data |-> data, exc |-> None]) IN
       /\ df' = r.df
       /\ parse_exc' = r.exc
    /\ sec_pos' = sec_pos + 1
    /\ UNCHANGED <<sec_lines, sec_end, columns, data, format_config,
                   scanVars, cfgVars, callerVars>>

ParseNext ==
    \/ ParseSkip
    \/ ParseHeader
    \/ ParseData
    \/ ParseOther
    \/ ParseMissingStarter
    \/ ParseReturn

SpecParse == ParseInit /\ [][ParseNext]_vars

-----------------------------------------------------------------------------
(* The parser object: __init__, then read_file calls *)

ConfigInputs == { Readable(f) : f \in ConfigFiles } \cup { Unreadable }

BlockPool ==
    { <<OpenA, HeaderAB, Row12, Row3x, CloseA>>,
      <<OpenA, HeaderA, RowX, CloseA>>,
      <<OpenB, CommentRow, HeaderAB, Row123, CloseB>>,
      <<OpenB, HeaderA, CloseB>>,
      <<OpenB, Row1, CloseB>>,
      <<OpenB, HeaderAA, Row12, CloseB>>,
      <<OpenA, HeaderAB, Row12>> }

RECURSIVE Concat(_)
Concat(blocks) ==
    IF blocks = <<>> THEN <<>> ELSE Head(blocks) \o Concat(Tail(blocks))

\* ''.split('\n') is [''], a file of one empty line
DataFileLines ==
    { IF Concat(bs) = <<>> THEN <<<<>>>> ELSE Concat(bs) :
        bs \in SeqsUpTo(BlockPool, MaxBlocks) }

DataInputs == { Readable(ls) : ls \in DataFileLines } \cup { Unreadable }

AllConfigs == LoadedConfigs \cup {EmptyDict}

\* the values of ReadFile on the configurations and files above, tabulated
ReadFileOf == [c \in AllConfigs |-> [f \in DataInputs |-> ReadFile(c, f)]]

Init ==
    /\ pc = "new"
    /\ config_file = Unreadable
    /\ format_config = EmptyDict
    /\ data_file = Unreadable
    /\ result = EmptyDict
    /\ raised = None
    /\ printed = None
    /\ earlier_call = None
    /\ frames = <<>>
    /\ writer = None
    /\ ScanIdle
    /\ CfgIdle
    /\ ParseIdle

\* __init__ (lines 11-19) with _load_format_config (lines 31-101): every
\* exception is caught there, its message printed and {} returned.
Construct ==
    /\ pc = "new"
    /\ \E f \in ConfigInputs :
           /\ config_file' = f
           /\ format_config' = IF f.readable THEN LoadFormatConfig(f.lines)
                                             ELSE EmptyDict
           /\ printed' = IF f.readable THEN None ELSE IOError
    /\ raised' = None
    /\ pc' = "ready"
    /\ UNCHANGED <<data_file, result, earlier_call, frames, writer,
                   scanVars, cfgVars, parseVars>>

\* read_file holding self.format_config = cfg leaves it with every key and
\* value cleared
ConfigAfterReadCleared(cfg) == EmptyDict

\* self.format_config after a read_file call that began with it equal to
\* cfg: lines 188-217 and _find_sections, _parse_section only look keys up.
ConfigAfterRead(cfg) == cfg

\* read_file(f) (lines 188-217): every exception is caught, its message
\* printed and {} returned.
ReadFileOn(f) ==
    /\ pc \in {"ready", "returned"}
    /\ data_file' = f
    /\ LET r == ReadFileOf[format_config][f] IN
       /\ result' = r.result
       /\ printed' = r.printed
    /\ format_config' = ConfigAfterRead(format_config)
    /\ raised' = None
    /\ pc' = "returned"
    /\ UNCHANGED <<config_file, frames, writer, scanVars, cfgVars, parseVars>>

ReadFileCall ==
    /\ \E f \in DataInputs : ReadFileOn(f)
    /\ UNCHANGED earlier_call

Next == Construct \/ ReadFileCall

Spec == Init /\ [][Next]_vars

-----------------------------------------------------------------------------
(* One parser, several read_file calls, one of them kept for comparison *)

MaxCallBlocks == 1   \* blocks of lines of a file read more than once

CallInputs ==
    { Readable(IF Concat(bs) = <<>> THEN <<<<>>>> ELSE Concat(bs)) :
        bs \in SeqsUpTo(BlockPool, MaxCallBlocks) } \cup { Unreadable }

\* a read_file call whose argument and returned mapping are kept
ReadFileKept ==
    /\ earlier_call = None
    /\ \E f \in CallInputs \cap DataInputs :
           /\ ReadFileOn(f)
           /\ earlier_call' = <<[file |-> f, result |-> result',
                                 others |-> FALSE]>>

\* any other read_file call; others tells whether a call on another file
\* followed the kept one
ReadFileOther ==
    /\ \E f \in CallInputs \cap DataInputs :
           /\ ReadFileOn(f)
           /\ earlier_call' =
                  IF earlier_call # None /\ f # earlier_call[1].file
                  THEN <<[earlier_call[1] EXCEPT !.others = TRUE]>>
                  ELSE earlier_call

CallsNext == Construct \/ ReadFileKept \/ ReadFileOther

SpecCalls == Init /\ [][CallsNext]_vars

-----------------------------------------------------------------------------
(* The writers of xlsxToEfile.py and a parser reading what they wrote *)

MaxRows == 2         \* rows of a DataFrame passed to a writer

\* A DataFrame as a writer sees it: the column names and, row by row, the
\* text str(val) of each cell.
Frame(cols, rows) == [columns |-> cols, rows |-> rows]

Space == <<" ">>

\* sep.join(texts)
RECURSIVE Join(_, _)
Join(sep, texts) ==
    IF texts = <<>> THEN <<>>
    ELSE IF Len(texts) = 1 THEN texts[1]
    ELSE texts[1] \o sep \o Join(sep, Tail(texts))

\* the column names the writers format as integers (lines 93-99, 119, 135)
\* and the section names of lines 104-140 and 222-241, each carried as one
\* symbol
Year == <<"Year">>
Month == <<"Month">>
MonthShort == <<"MonthShort">>
PriceUnits == <<"PriceUnits">>
PriceValues == <<"PriceValues">>
PriceRanges == <<"PriceRanges">>
ClimateUnits == <<"ClimateUnits">>
ClimateData == <<"ClimateData">>
SectionXX == <<"x", "x">>

\* str(int(float(val))) for a number val of which text is str(val)
IntText(text) ==
    IF Contains(text, ".") THEN SubSeq(text, 1, FirstIndex(text, ".") - 1)
    ELSE text

OpenMarker(name) == <<"<">> \o name \o <<">">>
CloseMarker(name) == <<"<", "/">> \o name \o <<">">>

\* "@ " + " ".join(list(df.columns))
HeaderLine(cols) == <<"@", " ">> \o Join(Space, cols)

\* a row written without the "# " before it
RowLineNoPrefix(texts) == Join(Space, texts)

\* "# " + " ".join(texts)
RowLine(texts) == <<"#", " ">> \o Join(Space, texts)

\* lines 107-108: one line for each row, each cell by str
PlainRows(frame) ==
    [r \in 1..Len(frame.rows) |-> RowLine(frame.rows[r])]

\* lines 117-122: the cells of the columns in intCols by str(int(float(val)))
FormattedRow(frame, intCols, row) ==
    [j \in 1..Len(frame.columns) |->
        IF frame.columns[j] \in intCols THEN IntText(row[j]) ELSE row[j]]

FormattedRows(frame, intCols) ==
    [r \in 1..Len(frame.rows) |->
        RowLine(FormattedRow(frame, intCols, frame.rows[r]))]

\* line 128: the comment line at the head of the ranges section
LegendLine == <<"/", "/", " ", "legend">>

\* the lines of the file save_all_tables writes (lines 102-140)
SaveAllTables(units, prices, ranges) ==
    <<OpenMarker(PriceUnits), HeaderLine(units.columns)>>
    \o PlainRows(units)
    \o <<CloseMarker(PriceUnits), <<>>,
         OpenMarker(PriceValues), HeaderLine(prices.columns)>>
    \o FormattedRows(prices, {Year, Month})
    \o <<CloseMarker(PriceValues), <<>>,
         OpenMarker(PriceRanges), LegendLine, HeaderLine(ranges.columns)>>
    \o FormattedRows(ranges, {Year, MonthShort, Month})
    \o <<CloseMarker(PriceRanges)>>

HasColumn(frame, name) == \E j \in 1..Len(frame.columns) : frame.columns[j] = name

\* lines 93-99: the exception raised before the file is opened, if any
SaveAllTablesError(units, prices, ranges) ==
    IF ~HasColumn(prices, Year) THEN KeyError(Year)
    ELSE IF ~HasColumn(prices, Month) THEN KeyError(Month)
    ELSE IF ~HasColumn(ranges, Year) THEN KeyError(Year)
    ELSE IF ~HasColumn(ranges, MonthShort) /\ ~HasColumn(ranges, Month)
    THEN KeyError(Month)
    ELSE None

\* the lines of the file save_climate_data writes (lines 220-241)
SaveClimateData(climate, units) ==
    <<OpenMarker(ClimateUnits), HeaderLine(units.columns)>>
    \o PlainRows(units)
    \o <<CloseMarker(ClimateUnits), <<>>,
         OpenMarker(ClimateData), HeaderLine(climate.columns)>>
    \o FormattedRows(climate, {Year, Month})
    \o <<CloseMarker(ClimateData)>>

\* lines 217-218
SaveClimateDataError(climate, units) ==
    IF ~HasColumn(climate, Year) THEN KeyError(Year)
    ELSE IF ~HasColumn(climate, Month) THEN KeyError(Month)
    ELSE None

\* text right-justified in a field of w characters
RECURSIVE RJust(_, _)
RJust(text, w) == IF Len(text) >= w THEN text ELSE RJust(Space \o text, w)

\* the width of column j in df.to_string(): that of its longest text
FieldWidth(frame, j) ==
    MaxWidth(<<frame.columns[j]>>
             \o [r \in 1..Len(frame.rows) |-> frame.rows[r][j]])

\* df.to_string(index=False), as the lines of the string: the column names,
\* then the rows, each field right-justified, fields joined by a space
DfToString(frame) ==
    <<Join(Space, [j \in 1..Len(frame.columns) |->
                      RJust(frame.columns[j], FieldWidth(frame, j))])>>
    \o [r \in 1..Len(frame.rows) |->
           Join(Space, [j \in 1..Len(frame.columns) |->
                           RJust(frame.rows[r][j], FieldWidth(frame, j))])]

\* the lines of the file save_to_special_format writes (lines 60-71): "# "
\* is written once, then the whole of df.to_string(index=False)
SaveToSpecialFormat(frame) ==
    <<OpenMarker(SectionXX), HeaderLine(frame.columns),
      <<"#", " ">> \o Head(DfToString(frame))>>
    \o Tail(DfToString(frame))
    \o <<CloseMarker(SectionXX)>>

\* the DataFrames passed to the writers
PriceColumn == <<"p">>
PriceColumnTab == <<"p", "\t">>

UnitRows ==
    { << <<"y">>, <<"m">>, <<"u">> >>,
      << <<>>, <<"m">>, <<"u">> >> }

UnitFrames ==
    { Frame(cols, <<row>>) :
        cols \in { <<Year, Month, PriceColumn>>, <<Year, Month, PriceColumnTab>> },
        row \in UnitRows }

PriceRows ==
    { << <<"2", "2">>, <<"1">>, <<"0", ".", "5">> >>,
      << <<"2", "2", ".", "0">>, <<"2">>, <<"x">> >>,
      << <<"2", "3">>, <<"1", ".", "0">>, <<>> >> }

RowsUpTo(pool, n) == SeqsUpTo(pool, n) \ {<<>>}

PriceFrames ==
    { Frame(<<Year, Month, PriceColumn>>, rows) : rows \in RowsUpTo(PriceRows, MaxRows) }
    \cup { Frame(<<Year, PriceColumn>>, << << <<"2", "2">>, <<"1">> >> >>) }

RangeRows ==
    { << <<"2", "2">>, <<"1">>, <<"3">> >>,
      << <<"2", "2">>, <<"2", ".", "0">>, <<"0">> >> }

RangeFrames ==
    { Frame(<<Year, MonthShort, <<"r">>>>, rows) :
        rows \in RowsUpTo(RangeRows, MaxRows) }

PlainRowPool ==
    { << <<"1">>, <<"2">> >>,
      << <<"3", "0">>, <<"x">> >> }

PlainFrames ==
    { Frame(<< <<"a">>, <<"b">> >>, rows) :
        rows \in RowsUpTo(PlainRowPool, MaxRows) }

\* a parser constructed on the conventional configuration file
WriteInit ==
    /\ pc = "ready"
    /\ config_file = Readable(ConventionalFile)
    /\ format_config = LoadFormatConfig(ConventionalFile)
    /\ data_file = Unreadable
    /\ result = EmptyDict
    /\ raised = None
    /\ printed = None
    /\ earlier_call = None
    /\ frames = <<>>
    /\ writer = None
    /\ ScanIdle
    /\ CfgIdle
    /\ ParseIdle

\* a writer call with arguments args: the file at output_path, which did not
\* exist before, holds the lines written, or does not exist when the
\* exception exc was raised before it was opened; the writers catch every
\* exception and print its message
Written(name, args, exc, ls) ==
    /\ pc = "ready"
    /\ writer = None
    /\ writer' = <<name>>
    /\ frames' = args
    /\ data_file' = IF exc = None THEN Readable(ls) ELSE Unreadable
    /\ printed' = exc
    /\ UNCHANGED <<pc, config_file, format_config, result, raised,
                   earlier_call, scanVars, cfgVars, parseVars>>

SaveAllTablesCall ==
    \E u \in UnitFrames, p \in PriceFrames, r \in RangeFrames :
        Written("save_all_tables", <<u, p, r>>,
                SaveAllTablesError(u, p, r),
                IF SaveAllTablesError(u, p, r) = None
                THEN SaveAllTables(u, p, r) ELSE <<>>)

SaveClimateDataCall ==
    \E c \in PriceFrames, u \in UnitFrames :
        Written("save_climate_data", <<c, u>>,
                SaveClimateDataError(c, u),
                IF SaveClimateDataError(c, u) = None
                THEN SaveClimateData(c, u) ELSE <<>>)

SaveToSpecialFormatCall ==
    \E f \in PlainFrames :
        Written("save_to_special_format", <<f>>, None, SaveToSpecialFormat(f))

\* read_file(output_path) on the parser
ReadWritten ==
    /\ pc = "ready"
    /\ writer # None
    /\ LET r == ReadFile(format_config, data_file) IN
       /\ result' = r.result
       /\ printed' = r.printed
    /\ format_config' = ConfigAfterRead(format_config)
    /\ raised' = None
    /\ pc' = "returned"
    /\ UNCHANGED <<config_file, data_file, earlier_call, frames, writer,
                   scanVars, cfgVars, parseVars>>

WriteNext ==
    \/ SaveAllTablesCall
    \/ SaveClimateDataCall
    \/ SaveToSpecialFormatCall
    \/ ReadWritten

SpecWrite == WriteInit /\ [][WriteNext]_vars

-----------------------------------------------------------------------------
(* Section scanning: claims C1-C3 *)

Gt == <<">">>

\* the text of a section name: no angle bracket, and not starting with the
\* slash that would make "<" + name + ">" a close line
IsNameText(n) ==
    /\ \A k \in 1..Len(n) : n[k] \notin {"<", ">"}
    /\ ~(n # <<>> /\ n[1] = "/")

IsOpenLine(raw, n) == Strip(raw) = Lt \o n \o Gt

IsCloseLine(raw, n) == Strip(raw) = LtSlash \o n \o Gt

IsMarkerLine(raw) == StartsWith(Strip(raw), Lt)

\* the text between the first and the last character of the trimmed line
Between(raw) == SubSeq(Strip(raw), 2, Len(Strip(raw)) - 1)

\* lines s..e (1-based) are one well-formed section: <N>, body lines that
\* are no markers, </N>
SectionAt(ls, s, e) ==
    /\ s < e
    /\ IsNameText(Between(ls[s]))
    /\ IsOpenLine(ls[s], Between(ls[s]))
    /\ IsCloseLine(ls[e], Between(ls[s]))
    /\ \A k \in (s + 1)..(e - 1) : ~IsMarkerLine(ls[k])

\* every marker line of the file is the open or the close line of a
\* well-formed section
WellFormed(ls) ==
    \A k \in 1..Len(ls) :
        IsMarkerLine(ls[k]) =>
            \E s \in 1..Len(ls), e \in 1..Len(ls) :
                SectionAt(ls, s, e) /\ k \in {s, e}

ExpectedSections(ls) ==
    { [name |-> Between(ls[p[1]]), start |-> p[1] - 1, end |-> p[2] - 1] :
        p \in { q \in (1..Len(ls)) \X (1..Len(ls)) : SectionAt(ls, q[1], q[2]) } }

\* C1: on a file made only of well-formed, non-overlapping sections,
\* _find_sections returns exactly one entry per section, in file order, with
\* start the index of the open line and end the index of the close line;
\* sections sharing a name are separate entries.
C1_WellFormedSectionsAllFound ==
    (ScanDone /\ WellFormed(lines)) =>
        /\ Len(sections) = Cardinality(ExpectedSections(lines))
        /\ { sections[k] : k \in 1..Len(sections) } = ExpectedSections(lines)
        /\ \A k \in 1..(Len(sections) - 1) :
               sections[k].start < sections[k + 1].start

C1_Witness ==
    /\ ScanDone
    /\ WellFormed(lines)
    /\ Len(sections) = 2
    /\ sections[1].name = sections[2].name

\* 1-based positions after k of the close markers carrying k's own name
OwnCloses(ls, k) ==
    { e \in (k + 1)..Len(ls) :
        /\ IsCloseMarker(Strip(ls[e]))
        /\ CloseName(Strip(ls[e])) = OpenName(Strip(ls[k])) }

LaterOpens(ls, k) == { o \in (k + 1)..Len(ls) : IsOpenMarker(Strip(ls[o])) }

\* the open marker at k meets another open marker, or the end of input,
\* before a close marker with its own name
Superseded(ls, k) ==
    \/ OwnCloses(ls, k) = {}
    \/ \E o \in LaterOpens(ls, k) : \A e \in OwnCloses(ls, k) : o < e

\* C2: an open marker followed by another open marker or by end of input
\* before a close marker with its own name is never emitted as a section;
\* no emitted section spans another open marker.
C2_SupersededOpenNeverEmitted ==
    /\ \A k \in 1..Len(lines) :
           (IsOpenMarker(Strip(lines[k])) /\ Superseded(lines, k)) =>
               \A n \in 1..Len(sections) : sections[n].start # k - 1
    /\ \A n \in 1..Len(sections) :
           \A k \in (sections[n].start + 2)..sections[n].end :
               ~IsOpenMarker(Strip(lines[k]))

C2_Witness ==
    /\ ScanDone
    /\ \E k \in 1..Len(lines) :
           /\ IsOpenMarker(Strip(lines[k]))
           /\ OwnCloses(lines, k) # {}
           /\ \E o \in LaterOpens(lines, k) :
                  \A e \in OwnCloses(lines, k) : o < e
    /\ Len(sections) = 1

\* the scanner state just before line k (1-based) is examined
ScanStateBefore(ls, k) == ScanFrom(ScanStart, 0, SubSeq(ls, 1, k - 1))

\* line k is a close marker that matches no open section
UnmatchedCloseAt(ls, k) ==
    /\ IsCloseMarker(Strip(ls[k]))
    /\ LET cs == ScanStateBefore(ls, k).current_section
       IN  cs = None \/ CloseName(Strip(ls[k])) # cs[1].name

OrdinaryLine == <<"x">>

\* C3: a close marker whose name differs from the open section's name, or
\* any close marker while no section is open, changes neither the scanner
\* state nor the sections emitted so far, and the sections found in the file
\* are those found with that line replaced by an ordinary line.
C3_UnmatchedCloseIgnored ==
    /\ [][ ( /\ i < Len(lines)
             /\ IsCloseMarker(Strip(lines[i + 1]))
             /\ \/ current_section = None
                \/ CloseName(Strip(lines[i + 1])) # current_section[1].name )
           => ( /\ current_section' = current_section
                /\ sections' = sections ) ]_vars
    /\ [](ScanDone =>
            \A k \in 1..Len(lines) :
                UnmatchedCloseAt(lines, k) =>
                    sections =
                        FindSections([lines EXCEPT ![k] = OrdinaryLine]))

C3_Witness ==
    /\ ScanDone
    /\ \E n \in 1..Len(sections) :
           \E k \in (sections[n].start + 2)..sections[n].end :
               IsCloseMarker(Strip(lines[k]))

-----------------------------------------------------------------------------
(* Configuration loading: claims C4-C5 *)

\* how many backslashes stand immediately before position j (1-based)
BackslashRun(s, j) ==
    Cardinality({ m \in 1..(j - 1) : \A q \in m..(j - 1) : s[q] = Backslash })

\* a '#' that is not the second character of a backslash pair
UnescapedHashes(s) ==
    { j \in 1..Len(s) : s[j] = Hash /\ BackslashRun(s, j) % 2 = 0 }

Min(S) == CHOOSE x \in S : \A y \in S : x <= y

ExpectedTruncation(s) ==
    IF UnescapedHashes(s) = {} THEN s
    ELSE Strip(SubSeq(s, 1, Min(UnescapedHashes(s)) - 1))

ExampleCommentConfig ==
    Put(EmptyDict, <<"key">>,
        <<"value", " ", "#", " ", "not", " ", "a", " ", "comment">>)

\* C4: a configuration line whose first non-blank character is not '#' is
\* truncated at the first '#' that is not the second character of a
\* backslash pair and is left whole when there is none; the entry stored is
\* the one of the truncated line, so the escaped '#' before that point stay
\* in the value, as in the example line of the specification.
C4_CommentStrippedAtFirstUnescapedHash ==
    /\ [][ (cfg_pos < Len(cfg_file) /\ ~IsSkippedLine(cfg_file[cfg_pos + 1]))
           => LET t == ExpectedTruncation(Strip(cfg_file[cfg_pos + 1])) IN
              /\ cfg_line' = t
              /\ config' = IF Contains(t, Equals)
                           THEN Put(config, KeyOf(t), DecodeValue(ValueOf(t)))
                           ELSE config ]_vars
    /\ []((cfg_file = <<ExampleCommentLine>> /\ cfg_pos = 1)
              => config = ExampleCommentConfig)

C4_Witness ==
    /\ cfg_pos >= 1
    /\ ~IsSkippedLine(cfg_file[cfg_pos])
    /\ LET s == Strip(cfg_file[cfg_pos]) IN
       /\ UnescapedHashes(s) # {}
       /\ \E j \in 1..(Min(UnescapedHashes(s)) - 1) : s[j] = Hash
    /\ Contains(cfg_line, Equals)
    /\ Contains(config[KeyOf(cfg_line)], Hash)

\* the first character of a backslash pair
IsPairHead(s, j) ==
    s[j] = Backslash /\ j < Len(s) /\ BackslashRun(s, j) % 2 = 0

\* the second character of a backslash pair
IsPairTail(s, j) == BackslashRun(s, j) % 2 = 1

EscapeTable(c) ==
    CASE c = "#" -> "#"
      [] c = "n" -> "\n"
      [] c = "t" -> "\t"
      [] c = "\\" -> "\\"
      [] OTHER -> c

KeptPositions(s) == { j \in 1..Len(s) : ~IsPairHead(s, j) }

NthKept(s, n) ==
    CHOOSE j \in KeptPositions(s) :
        Cardinality({ m \in KeptPositions(s) : m < j }) = n - 1

ExpectedDecode(s) ==
    IF s = <<Backslash>> THEN <<" ">>
    ELSE [ n \in 1..Cardinality(KeptPositions(s)) |->
             LET j == NthKept(s, n) IN
             IF IsPairTail(s, j) THEN EscapeTable(s[j]) ELSE s[j] ]

\* C5: the trimmed value is decoded so: exactly one backslash becomes one
\* space; otherwise each backslash followed by a character c is replaced,
\* left to right, by '#', newline, tab, backslash for c = '#', 'n', 't',
\* backslash, and by c itself for any other c; the other characters are
\* copied unchanged.
C5_ValueDecoded ==
    [][ ( /\ cfg_pos < Len(cfg_file)
          /\ ~IsSkippedLine(cfg_file[cfg_pos + 1])
          /\ Contains(cfg_line', Equals) )
        => /\ KeyOf(cfg_line') \in DOMAIN config'
           /\ config'[KeyOf(cfg_line')] = ExpectedDecode(ValueOf(cfg_line')) ]_vars

C5_Witness ==
    /\ cfg_pos >= 1
    /\ ~IsSkippedLine(cfg_file[cfg_pos])
    /\ Contains(cfg_line, Equals)
    /\ ValueOf(cfg_line) = <<"\\", "#", "\\", "n">>
    /\ config[KeyOf(cfg_line)] = <<"#", "\n">>

-----------------------------------------------------------------------------
(* Error handling: claims C6-C8 *)

ConfigLoadError == <<[type |-> "ConfigLoadError", arg |-> <<"open">>]>>
MissingFormatKeyError(k) == <<[type |-> "MissingFormatKeyError", arg |-> k]>>
FileReadError == <<[type |-> "FileReadError", arg |-> <<"open">>]>>

\* C6: loading a configuration file that cannot be opened or decoded fails
\* with a ConfigLoadError that reaches the caller, who can so tell it from a
\* loaded configuration without keys.
C6_ConfigLoadErrorReported ==
    (pc # "new" /\ ~config_file.readable) => raised = ConfigLoadError

MissingKeys(cfg) == FormatKeys \ DOMAIN cfg

\* C7: with a loaded configuration that lacks one of the four keys, parsing
\* a data file ends in a MissingFormatKeyError naming an absent key, which
\* reaches the caller instead of a mapping.
C7_MissingFormatKeyReported ==
    ( /\ pc = "returned"
      /\ config_file.readable
      /\ data_file.readable
      /\ MissingKeys(format_config) # {} )
    => \E k \in MissingKeys(format_config) : raised = MissingFormatKeyError(k)

\* C8: read_file on a data file that cannot be opened or decoded fails with
\* a FileReadError; a mapping is returned only when the file was read and
\* parsed.
C8_FileReadErrorReported ==
    /\ (pc = "returned" /\ ~data_file.readable) => raised = FileReadError
    /\ (pc = "returned" /\ raised = None)
           => (data_file.readable /\ printed = None)

-----------------------------------------------------------------------------
(* Tables: claims C9-C10 *)

\* the four keys are present and each holds a token (a non-empty string)
FourTokens(cfg) ==
    /\ FormatKeys \subseteq DOMAIN cfg
    /\ \A k \in FormatKeys : cfg[k] # <<>>

\* some line strictly between the markers of sec starts with the token
HasLineStarting(ls, sec, token) ==
    \E k \in (sec.start + 2)..sec.end : StartsWith(Strip(ls[k]), token)

HasHeaderAndData(cfg, ls, sec) ==
    /\ HasLineStarting(ls, sec, cfg[AttributeNameStarter])
    /\ HasLineStarting(ls, sec, cfg[DataLineStarter])

\* C9: under a four-token configuration the mapping read_file returns has a
\* key for a section name only if a scanned section of that name has a
\* header line and a data line strictly between its markers; no entry is an
\* empty table; a file whose sections all lack a header line or a data line
\* gives the empty mapping and no error.
C9_TablesOnlyFromHeaderAndData ==
    (pc = "returned" /\ data_file.readable /\ FourTokens(format_config)) =>
        LET ls == data_file.lines
            secs == FindSections(ls)
        IN  /\ \A name \in DOMAIN result :
                   /\ result[name].columns # <<>>
                   /\ result[name].rows # <<>>
                   /\ \E n \in 1..Len(secs) :
                          /\ secs[n].name = name
                          /\ HasHeaderAndData(format_config, ls, secs[n])
            /\ (\A n \in 1..Len(secs) :
                    ~HasHeaderAndData(format_config, ls, secs[n]))
                   => (result = EmptyDict /\ printed = None /\ raised = None)

C9_Witness ==
    /\ pc = "returned"
    /\ data_file.readable
    /\ FourTokens(format_config)
    /\ printed = None
    /\ DOMAIN result # {}
    /\ LET secs == FindSections(data_file.lines) IN
       \E n \in 1..Len(secs) :
           /\ secs[n].name \notin DOMAIN result
           /\ ~HasHeaderAndData(format_config, data_file.lines, secs[n])

\* every cell of column j parses as a number
AllCellsNumeric(frame, j) ==
    \A r \in 1..Len(frame.rows) :
        frame.rows[r][j] = NaCell \/ IsNumericText(frame.rows[r][j])

\* C10: in the table _parse_section builds, a column is numeric if and only
\* if every cell of that column, across all rows, parses as a number.
C10_ColumnNumericIffAllCellsParse ==
    (df # None /\ df[1].columns # <<>>) =>
        \A j \in 1..Len(df[1].columns) :
            df[1].numeric[j] <=> AllCellsNumeric(df[1], j)

-----------------------------------------------------------------------------
(* Sections that share a name: claim C11 *)

\* the positions in secs of the sections called name
Named(secs, name) == { n \in 1..Len(secs) : secs[n].name = name }

\* the names that two or more scanned sections carry
SharedNames(secs) ==
    { secs[n].name :
        n \in { m \in 1..Len(secs) :
                  Cardinality(Named(secs, secs[m].name)) >= 2 } }

Max(S) == CHOOSE x \in S : \A y \in S : y <= x

\* the table parsed from section sec, None when parsing it raises or gives
\* the empty table
TableOf(cfg, ls, sec) ==
    LET parsed == ParseSection(cfg, ls, sec.start, sec.end) IN
    IF parsed.exc # None THEN None
    ELSE IF IsEmptyFrame(parsed.df[1]) THEN None
    ELSE parsed.df

\* the sections called name from which a table is parsed
Yielding(cfg, ls, secs, name) ==
    { n \in Named(secs, name) : TableOf(cfg, ls, secs[n]) # None }

\* C11 as stated: when two scanned sections share a name (and one of them
\* gives a table), the mapping read_file returns holds a table under that
\* name and it is the parsed content of the later section in file order.
\* Stated for calls under a four-token configuration that end in no
\* exception.
C11_LaterSectionWins ==
    ( /\ pc = "returned"
      /\ data_file.readable
      /\ FourTokens(format_config)
      /\ printed = None ) =>
        LET ls == data_file.lines
            secs == FindSections(ls)
        IN  \A name \in SharedNames(secs) :
                Yielding(format_config, ls, secs, name) # {} =>
                    /\ name \in DOMAIN result
                    /\ <<result[name]>> =
                           TableOf(format_config, ls,
                                   secs[Max(Named(secs, name))])

\* C11, amended: when two scanned sections share a name, the mapping
\* read_file returns holds at most one table under that name. If the call
\* ends in no exception and some section of that name gives a table, the
\* entry is the table of the last such section in file order: earlier
\* tables are replaced entirely, and a later section that gives no table
\* leaves the entry in place. Otherwise the name has no entry.
C11_LastTableOfNameWins ==
    (pc = "returned" /\ data_file.readable) =>
        LET ls == data_file.lines
            secs == FindSections(ls)
        IN  \A name \in SharedNames(secs) :
                LET y == Yielding(format_config, ls, secs, name) IN
                IF printed # None \/ y = {}
                THEN name \notin DOMAIN result
                ELSE /\ name \in DOMAIN result
                     /\ <<result[name]>> =
                            TableOf(format_config, ls, secs[Max(y)])

\* two sections of one name give different tables and the second is held
C11_Witness ==
    /\ pc = "returned"
    /\ data_file.readable
    /\ printed = None
    /\ LET ls == data_file.lines
           secs == FindSections(ls)
       IN  \E name \in SharedNames(secs) :
               LET y == Yielding(format_config, ls, secs, name) IN
               /\ Cardinality(y) >= 2
               /\ \E n \in y : TableOf(format_config, ls, secs[n])
                                  # <<result[name]>>
               /\ <<result[name]>> = TableOf(format_config, ls, secs[Max(y)])

-----------------------------------------------------------------------------
(* Repeated calls: claim C12 *)

-----------------------------------------------------------------------------
(* Writing, then reading: claim C13 *)

\* the column names and the cell texts of a DataFrame
TextsOf(frame) ==
    { frame.columns[j] : j \in 1..Len(frame.columns) }
    \cup { frame.rows[r][j] : r \in 1..Len(frame.rows),
                              j \in 1..Len(frame.columns) }

NoSpace(text) == ~Contains(text, " ")

NoWhitespaceNotEmpty(text) ==
    text # <<>> /\ \A k \in 1..Len(text) : text[k] \notin Whitespace

\* the mapping read back holds under name a table with the column names of
\* frame, in order, and as many rows
SameShape(name, frame) ==
    /\ name \in DOMAIN result
    /\ result[name].columns = frame.columns
    /\ Len(result[name].rows) = Len(frame.rows)

\* save_all_tables wrote a file and read_file has read it
ReadAllTables ==
    /\ pc = "returned"
    /\ writer = <<"save_all_tables">>
    /\ data_file.readable

ThreeTablesSameShape ==
    /\ DOMAIN result = {PriceUnits, PriceValues, PriceRanges}
    /\ SameShape(PriceUnits, frames[1])
    /\ SameShape(PriceValues, frames[2])
    /\ SameShape(PriceRanges, frames[3])

\* C13 as stated: for a units table of one row, a prices table and a
\* ranges table of one row or more, whose column names and cell texts
\* contain no space, the file save_all_tables writes, read back with the
\* conventional tokens, gives exactly the three tables, each with the same
\* column names in order and the same number of rows.
C13_RoundTripWithoutSpaces ==
    ( /\ ReadAllTables
      /\ \A k \in 1..3 : \A t \in TextsOf(frames[k]) : NoSpace(t) )
    => ThreeTablesSameShape

\* C13, amended: the same for tables whose column names and cell texts are
\* not empty and contain no whitespace character.
C13_RoundTripOfPlainTexts ==
    ( /\ ReadAllTables
      /\ \A k \in 1..3 : \A t \in TextsOf(frames[k]) : NoWhitespaceNotEmpty(t) )
    => ThreeTablesSameShape

\* a prices table of two rows, a year written from 22.0 as 22, read back
C13_Witness ==
    /\ ReadAllTables
    /\ \A k \in 1..3 : \A t \in TextsOf(frames[k]) : NoWhitespaceNotEmpty(t)
    /\ Len(frames[2].rows) = 2
    /\ \E r \in 1..2 : frames[2].rows[r][1] = <<"2", "2", ".", "0">>
    /\ Len(result[PriceValues].rows) = 2
    /\ \A r \in 1..2 : result[PriceValues].rows[r][1] = <<"2", "2">>

-----------------------------------------------------------------------------
(* Starter tokens: claim C14 *)

\* the pieces of the text that remains of line after the whole token
TokenizedAfter(line, token, breaker) ==
    SplitStripped(Strip(SliceFrom(line, Len(token))), breaker)

\* C14: whatever the length of the configured starters, a line that starts
\* with the header starter gives as column names the trimmed pieces of the
\* text left after removing exactly that token, replacing earlier column
\* names; a line that starts with the data starter appends one row made the
\* same way, in file order.
C14_WholeStarterRemoved ==
    [][ ( /\ InLoop
          /\ FourTokens(format_config)
          /\ ~IsSkippedRow(SecLine) ) =>
        IF IsHeaderRow(format_config, SecLine)
        THEN /\ columns' = <<TokenizedAfter(SecLine,
                                            format_config[AttributeNameStarter],
                                            format_config[AttributeBreaker])>>
             /\ data' = data
        ELSE IF IsDataRow(format_config, SecLine)
        THEN /\ data' = Append(data,
                               TokenizedAfter(SecLine,
                                              format_config[DataLineStarter],
                                              format_config[DataBreaker]))
             /\ columns' = columns
        ELSE UNCHANGED <<columns, data>> ]_vars

-----------------------------------------------------------------------------
(* Rows and header of different widths: claim C15 *)

\* the header and the rows _parse_section collects from section sec
Collected(cfg, ls, sec) ==
    ParseFrom(cfg, ParseStart, SectionBody(ls, sec.start, sec.end), 0)

\* sec has a header and some data row whose number of cells differs from
\* the number of column names
WidthMismatch(cfg, ls, sec) ==
    LET st == Collected(cfg, ls, sec) IN
    /\ st.exc = None
    /\ st.columns # None
    /\ \E r \in 1..Len(st.data) : Len(st.data[r]) # Len(st.columns[1])

\* sec has a header and at least one data row, every row of the header's
\* width
MatchingWidth(cfg, ls, sec) ==
    LET st == Collected(cfg, ls, sec) IN
    /\ st.exc = None
    /\ st.columns # None
    /\ st.data # <<>>
    /\ \A r \in 1..Len(st.data) : Len(st.data[r]) = Len(st.columns[1])

\* C15: a section in which some data row has a number of cells different
\* from the number of column names does not abort the parse: read_file ends
\* in no exception and every section with a header and at least one data
\* row of matching width has its name in the mapping returned.
C15_WidthMismatchNotFatal ==
    ( /\ pc = "returned"
      /\ data_file.readable
      /\ FourTokens(format_config) ) =>
        LET ls == data_file.lines
            secs == FindSections(ls)
        IN  (\E n \in 1..Len(secs) : WidthMismatch(format_config, ls, secs[n]))
            => /\ printed = None
               /\ \A n \in 1..Len(secs) :
                      MatchingWidth(format_config, ls, secs[n])
                          => secs[n].name \in DOMAIN result

-----------------------------------------------------------------------------
(* Marker delimiters and section invariants: claims C16-C17 *)

\* C16: the name recorded for a section is the text between the leading
\* "<" (or "</") and a trailing ">" of its marker lines, nothing else being
\* dropped: every section emitted has "<" + name + ">" as its trimmed open
\* line and "</" + name + ">" as its trimmed close line.
C16_MarkersDelimitName ==
    \A n \in 1..Len(sections) :
        /\ IsOpenLine(lines[sections[n].start + 1], sections[n].name)
        /\ IsCloseLine(lines[sections[n].end + 1], sections[n].name)

\* C17: in the list _find_sections builds, every entry has start < end, the
\* entries are disjoint and in file order (the end of one is less than the
\* start of the next), and no line strictly between the start and the end
\* of an entry is an open marker.
C17_SectionsOrderedDisjoint ==
    /\ \A n \in 1..Len(sections) : sections[n].start < sections[n].end
    /\ \A n \in 1..(Len(sections) - 1) :
           sections[n].end < sections[n + 1].start
    /\ \A n \in 1..Len(sections) :
           \A k \in (sections[n].start + 1)..(sections[n].end - 1) :
               ~IsOpenMarker(Strip(lines[k + 1]))

\* two sections found, the second opened on the line after the close marker
\* of the first
C17_Witness ==
    /\ ScanDone
    /\ Len(sections) = 2
    /\ sections[1].end + 1 = sections[2].start

-----------------------------------------------------------------------------
(* What every writer emits: claim C18 *)

\* the sections the writer that ran has written: the name, the DataFrame
\* and the columns whose cells it writes as integers
WrittenTables ==
    IF writer = <<"save_all_tables">>
    THEN { [name |-> PriceUnits, frame |-> frames[1], ints |-> {}],
           [name |-> PriceValues, frame |-> frames[2],
            ints |-> {Year, Month}],
           [name |-> PriceRanges, frame |-> frames[3],
            ints |-> {Year, MonthShort, Month}] }
    ELSE IF writer = <<"save_climate_data">>
    THEN { [name |-> ClimateUnits, frame |-> frames[2], ints |-> {}],
           [name |-> ClimateData, frame |-> frames[1],
            ints |-> {Year, Month}] }
    ELSE { [name |-> SectionXX, frame |-> frames[1], ints |-> {}] }

\* the table read back under t.name has as many rows as the DataFrame and
\* holds its cells
HoldsRowsOf(t) ==
    /\ t.name \in DOMAIN result
    /\ Len(result[t.name].rows) = Len(t.frame.rows)
    /\ \A r \in 1..Len(t.frame.rows) :
           result[t.name].rows[r] = FormattedRow(t.frame, t.ints, t.frame.rows[r])

\* C18: every writer emits, between paired markers, one header line
\* prefixed "@" and each row of the DataFrame on its own line prefixed "#",
\* so that the file parsed with the conventional tokens gives for each
\* DataFrame a table with as many rows, holding its cell values.  Stated
\* for DataFrames whose texts are not empty and hold no whitespace.
C18_WritersEmitOneLinePerRow ==
    ( /\ pc = "returned"
      /\ writer # None
      /\ data_file.readable
      /\ \A k \in 1..Len(frames) :
             \A t \in TextsOf(frames[k]) : NoWhitespaceNotEmpty(t) )
    => \A t \in WrittenTables : HoldsRowsOf(t)

-----------------------------------------------------------------------------
(* Configurations that lack a key: claim C19 *)

KeyErrors == { KeyError(k) : k \in FormatKeys }

\* C19: a parser whose format_config lacks one of the four keys, the empty
\* configuration of a failed load included, returns the empty mapping from
\* read_file for every data file; a call that ends in the lookup of an
\* absent key returns no table, whatever was parsed before it.
C19_NoTableWithoutFourKeys ==
    /\ (pc = "returned" /\ MissingKeys(format_config) # {})
           => result = EmptyDict
    /\ (pc = "returned" /\ printed \in KeyErrors)
           => /\ result = EmptyDict
              /\ printed[1].arg \in MissingKeys(format_config)

\* a loaded configuration lacks DataBreaker only, the file has a section
\* with a header line and a data line, and the lookup of DataBreaker ended
\* the call
C19_Witness ==
    /\ pc = "returned"
    /\ config_file.readable
    /\ MissingKeys(format_config) = {DataBreaker}
    /\ printed = KeyError(DataBreaker)
    /\ result = EmptyDict
    /\ LET secs == FindSections(data_file.lines) IN
       /\ Len(secs) = 2
       /\ HasLineStarting(data_file.lines, secs[2],
                          format_config[AttributeNameStarter])
       /\ HasLineStarting(data_file.lines, secs[2],
                          format_config[DataLineStarter])

====
